---- MODULE Spec2Model ----
(***************************************************************************)
(* The indexer's header and contract-event stores                          *)
(* (indexer/database/blocks.go, indexer/database/contract_events.go).      *)
(*                                                                         *)
(* The four tables {l1,l2}_block_headers and {l1,l2}_contract_events are   *)
(* sets of rows.  Every method of blocksDB / contractEventsDB is one       *)
(* action; it leaves its arguments, its result and its error in `ret`.     *)
(* A query without a total order (Take with no ORDER BY, ORDER BY ties)    *)
(* may return any of the rows the database is allowed to return.           *)
(***************************************************************************)
EXTENDS Integers, Sequences, FiniteSets, TLC

\* Bounds of the model.
MaxBatch == 2         \* a bulk Store* call carries 0..MaxBatch rows
MaxRows == 3          \* rows held by the whole database in SpecEvents
MaxUUIDs == 3         \* identifiers uuid.New() hands out in SpecFromLog
MaxClaims == 3        \* claims of the dispute game in SpecDisputeGame
MaxWaiters == 2       \* concurrent calls of waitForInterrupt
MaxSignals == 2       \* signals the process receives in SpecWaitForInterrupt

\* Input alphabets.  0 is the zero value of every hash, address and uuid.
Hashes == 1..2        \* block hashes (and the hash of the one tx of a block)
Numbers == 0..1       \* block numbers
Timestamps == 1..2    \* block timestamps
GUIDs == 1..2         \* event identifiers
LogIndexes == 0..1    \* position of a log in its transaction

VARIABLES l1_block_headers, l2_block_headers,
          l1_contract_events, l2_contract_events,
          legacy_state_batches, output_proposals,
          ret,               \* the last call: its arguments, result and error
          tx,                \* the Store* statement the database is executing
          uuids,             \* the identifiers uuid.New() has handed out
          superchainConfig,  \* storage of the SuperchainConfig contract
          disputeGame,       \* storage of one PermissionedDisputeGame
          incoming,          \* buffer of interruptSignalCatcher.incoming
          notify,            \* signal.Notify is in force for incoming
          delivered,         \* how many signals were put into incoming
          ctx,               \* the context each waiter passes
          waiters            \* each waitForInterrupt call: position, result

headerTables == <<l1_block_headers, l2_block_headers>>
eventTables == <<l1_contract_events, l2_contract_events>>
checkpointTables == <<legacy_state_batches, output_proposals>>
signalVars == <<incoming, notify, delivered, ctx, waiters>>
elsewhere == <<tx, uuids, superchainConfig, disputeGame, signalVars>>
vars == <<l1_block_headers, l2_block_headers,
          l1_contract_events, l2_contract_events,
          legacy_state_batches, output_proposals,
          ret, tx, uuids, superchainConfig, disputeGame,
          incoming, notify, delivered, ctx, waiters>>

\* A nil pointer / absent result, and a nil *big.Int height.
Nil == [nil |-> TRUE]
NilHeight == -1

\* uuid.Nil, the all-zero UUID: the zero value of uuid.UUID.
NilUUID == 0

Range(s) == {s[i] : i \in 1..Len(s)}

\* Sequences of length 0..n over S.
SeqsUpTo(S, n) == UNION {[1..k -> S] : k \in 0..n}

(***************************************************************************)
(* Types                                                                   *)
(***************************************************************************)

\* BlockHeader: the columns of a header row.  The parent of block h is h-1.
BlockHeader ==
    {[Hash |-> h, ParentHash |-> h - 1, Number |-> n, Timestamp |-> t] :
        h \in Hashes, n \in Numbers, t \in Timestamps}

\* Primary key of the header tables.
BlockHeaderKeys == {{"Hash"}}

\* Zero values if Number were a plain integer column.
BlockHeaderZeroPlainNumber ==
    [Hash |-> 0, ParentHash |-> 0, Number |-> 0, Timestamp |-> 0]

\* The Go zero value of each BlockHeader field, as gorm's struct conditions
\* see it: U256{Int: height} is zero only for a nil height.
BlockHeaderZero ==
    [Hash |-> 0, ParentHash |-> 0, Number |-> NilHeight, Timestamp |-> 0]

(***************************************************************************)
(* gorm / SQL primitives, as the methods use them                          *)
(***************************************************************************)

\* Two rows collide on one of the unique keys.
Conflict(x, y, keys) == \E k \in keys : \A c \in k : x[c] = y[c]

\* A non-atomic insert: rows before the first offending one are persisted.
CreateRowByRow(table, rows, keys) ==
    LET bad == {i \in 1..Len(rows) :
                   \/ \E x \in table : Conflict(rows[i], x, keys)
                   \/ \E j \in 1..(i - 1) : Conflict(rows[i], rows[j], keys)}
        first == CHOOSE i \in bad : \A j \in bad : i <= j
    IN  IF Len(rows) = 0 THEN [table |-> table, err |-> "ErrEmptySlice"]
        ELSE IF bad # {}
        THEN [table |-> table \cup {rows[i] : i \in 1..(first - 1)},
              err |-> "DuplicateKey"]
        ELSE [table |-> table \cup Range(rows), err |-> "nil"]

\* An insert that overwrites on conflict (an upsert): the stored rows that
\* collide with the batch are replaced by it.
CreateReplacing(table, rows, keys) ==
    IF Len(rows) = 0 THEN [table |-> table, err |-> "ErrEmptySlice"]
    ELSE [table |-> {x \in table :
                        \A i \in 1..Len(rows) : ~Conflict(rows[i], x, keys)}
                    \cup Range(rows),
          err |-> "nil"]

\* db.gorm.Create(&rows): one INSERT statement for the whole slice.
Create(table, rows, keys) ==
    IF Len(rows) = 0 THEN [table |-> table, err |-> "ErrEmptySlice"]
    ELSE IF \/ \E i \in 1..Len(rows) : \E x \in table : Conflict(rows[i], x, keys)
            \/ \E i, j \in 1..Len(rows) : i < j /\ Conflict(rows[i], rows[j], keys)
    THEN [table |-> table, err |-> "DuplicateKey"]
    ELSE [table |-> table \cup Range(rows), err |-> "nil"]

\* db.gorm.Where(&cond): equality on every field of cond that is not the
\* zero value of its type; zero-valued fields add no condition.
Where(table, cond, zero) ==
    {r \in table : \A f \in DOMAIN cond : cond[f] = zero[f] \/ r[f] = cond[f]}

\* ORDER BY number ASC ... Take: the rows the database may return first.
OrderNumberAsc(table) ==
    {r \in table : \A o \in table : r.Number <= o.Number}

\* Order("number DESC") ... Take: the rows the database may return first.
OrderNumberDesc(table) ==
    {r \in table : \A o \in table : r.Number >= o.Number}

\* Take(&dest): LIMIT 1; ErrRecordNotFound becomes (nil, nil).
TakeResults(rows) == IF rows = {} THEN {Nil} ELSE rows

(***************************************************************************)
(* blocksDB                                                                *)
(***************************************************************************)

\* Heights asked for: nil, every stored number and one beyond them.
Heights == {NilHeight} \cup Numbers \cup {2}

\* Both header structs kept in one table.
StoreL1BlockHeadersOneTable(headers) ==
    LET result == Create(l1_block_headers \cup l2_block_headers, headers,
                         BlockHeaderKeys)
    IN  /\ l1_block_headers' = result.table
        /\ l2_block_headers' = result.table
        /\ ret' = [op |-> "StoreL1BlockHeaders", arg |-> headers,
                   val |-> Nil, err |-> result.err]
        /\ UNCHANGED <<eventTables, checkpointTables, elsewhere>>

StoreL1BlockHeaders(headers) ==
    LET result == Create(l1_block_headers, headers, BlockHeaderKeys)
    IN  /\ l1_block_headers' = result.table
        /\ ret' = [op |-> "StoreL1BlockHeaders", arg |-> headers,
                   val |-> Nil, err |-> result.err]
        /\ UNCHANGED <<l2_block_headers, eventTables, checkpointTables, elsewhere>>

StoreL2BlockHeaders(headers) ==
    LET result == Create(l2_block_headers, headers, BlockHeaderKeys)
    IN  /\ l2_block_headers' = result.table
        /\ ret' = [op |-> "StoreL2BlockHeaders", arg |-> headers,
                   val |-> Nil, err |-> result.err]
        /\ UNCHANGED <<l1_block_headers, eventTables, checkpointTables, elsewhere>>

L1BlockHeader(height) ==
    /\ \E l1Header \in TakeResults(Where(l1_block_headers,
              [BlockHeaderZero EXCEPT !.Number = height], BlockHeaderZero)) :
          ret' = [op |-> "L1BlockHeader", arg |-> height,
                  val |-> l1Header, err |-> "nil"]
    /\ UNCHANGED <<headerTables, eventTables, checkpointTables, elsewhere>>

L2BlockHeader(height) ==
    /\ \E l2Header \in TakeResults(Where(l2_block_headers,
              [BlockHeaderZero EXCEPT !.Number = height], BlockHeaderZero)) :
          ret' = [op |-> "L2BlockHeader", arg |-> height,
                  val |-> l2Header, err |-> "nil"]
    /\ UNCHANGED <<headerTables, eventTables, checkpointTables, elsewhere>>

LatestL1BlockHeader ==
    /\ \E l1Header \in TakeResults(OrderNumberDesc(l1_block_headers)) :
          ret' = [op |-> "LatestL1BlockHeader", arg |-> Nil,
                  val |-> l1Header, err |-> "nil"]
    /\ UNCHANGED <<headerTables, eventTables, checkpointTables, elsewhere>>

LatestL2BlockHeader ==
    /\ \E l2Header \in TakeResults(OrderNumberDesc(l2_block_headers)) :
          ret' = [op |-> "LatestL2BlockHeader", arg |-> Nil,
                  val |-> l2Header, err |-> "nil"]
    /\ UNCHANGED <<headerTables, eventTables, checkpointTables, elsewhere>>

(***************************************************************************)
(* Checkpoints: legacy state batches and output proposals                  *)
(***************************************************************************)

OutputRoots == 1..2      \* output roots
OutputIndexes == 0..1    \* L2 output indexes
BatchIndexes == 0..1     \* legacy state batch indexes

\* LegacyStateBatch rows: batch i has root i+1, one element and i elements
\* before it, and was emitted by the L1 event with GUID 1.
LegacyStateBatch ==
    {[Index |-> i, Root |-> i + 1, Size |-> 1, PrevTotal |-> i,
      L1ContractEventGUID |-> 1] : i \in BatchIndexes}

\* Index uint64 `gorm:"primaryKey;default:0"`.
LegacyStateBatchKeys == {{"Index"}}

\* OutputProposal rows: the output of index i is the output of L2 block 2*i,
\* emitted by the L1 event whose GUID is the root.
OutputProposal ==
    {[OutputRoot |-> r, L2OutputIndex |-> i, L2BlockNumber |-> 2 * i,
      L1ContractEventGUID |-> r] : r \in OutputRoots, i \in OutputIndexes}

\* OutputRoot common.Hash `gorm:"primaryKey;serializer:json"`.
OutputProposalKeys == {{"OutputRoot"}}

\* Zero values if the U256 columns were plain integers.
OutputProposalZeroPlainIndex ==
    [OutputRoot |-> 0, L2OutputIndex |-> 0, L2BlockNumber |-> 0,
     L1ContractEventGUID |-> NilUUID]

\* The Go zero value of each OutputProposal field: a U256 is zero only when
\* its Int is nil.
OutputProposalZero ==
    [OutputRoot |-> 0, L2OutputIndex |-> NilHeight, L2BlockNumber |-> NilHeight,
     L1ContractEventGUID |-> NilUUID]

StoreLegacyStateBatches(stateBatches) ==
    LET result == Create(legacy_state_batches, stateBatches, LegacyStateBatchKeys)
    IN  /\ legacy_state_batches' = result.table
        /\ ret' = [op |-> "StoreLegacyStateBatches", arg |-> stateBatches,
                   val |-> Nil, err |-> result.err]
        /\ UNCHANGED <<headerTables, eventTables, output_proposals, elsewhere>>

StoreOutputProposals(outputs) ==
    LET result == Create(output_proposals, outputs, OutputProposalKeys)
    IN  /\ output_proposals' = result.table
        /\ ret' = [op |-> "StoreOutputProposals", arg |-> outputs,
                   val |-> Nil, err |-> result.err]
        /\ UNCHANGED <<headerTables, eventTables, legacy_state_batches, elsewhere>>

\* ORDER BY l2_output_index ASC ... Take: the rows that may come first.
OrderOutputIndexAsc(table) ==
    {r \in table : \A o \in table : r.L2OutputIndex <= o.L2OutputIndex}

\* Order("l2_output_index DESC") ... Take: the rows that may come first.
OrderOutputIndexDesc(table) ==
    {r \in table : \A o \in table : r.L2OutputIndex >= o.L2OutputIndex}

LatestCheckpointedOutput ==
    /\ \E outputProposal \in TakeResults(OrderOutputIndexDesc(output_proposals)) :
          ret' = [op |-> "LatestCheckpointedOutput", arg |-> Nil,
                  val |-> outputProposal, err |-> "nil"]
    /\ UNCHANGED <<headerTables, eventTables, checkpointTables, elsewhere>>

\* blocksDB.OutputProposal(index)
OutputProposalAt(index) ==
    /\ \E outputProposal \in TakeResults(Where(output_proposals,
              [OutputProposalZero EXCEPT !.L2OutputIndex = index],
              OutputProposalZero)) :
          ret' = [op |-> "OutputProposal", arg |-> index,
                  val |-> outputProposal, err |-> "nil"]
    /\ UNCHANGED <<headerTables, eventTables, checkpointTables, elsewhere>>

(***************************************************************************)
(* LatestEpoch                                                             *)
(***************************************************************************)

HeaderColumns == <<"Hash", "ParentHash", "Number", "Timestamp">>

\* type Epoch: two embedded headers, whose fields carry the same column names.
EpochFields ==
    [k \in 1..8 |-> IF k <= 4 THEN <<"L1BlockHeader", HeaderColumns[k]>>
                    ELSE <<"L2BlockHeader", HeaderColumns[k - 4]>>]

\* Table("l1_block_headers") INNER JOIN l2_block_headers ON equal timestamps.
EpochJoin ==
    {<<a, b>> \in l1_block_headers \X l2_block_headers :
        a.Timestamp = b.Timestamp}

\* The joined rows that come first under an ascending order.
EpochOrderAsc(rows) ==
    {r \in rows : \A o \in rows : r[1].Timestamp <= o[1].Timestamp}

\* Order("l1_block_headers.timestamp DESC"): the joined rows that may come first.
EpochOrder(rows) ==
    {r \in rows : \A o \in rows : r[1].Timestamp >= o[1].Timestamp}

\* Select("*"): the columns of the L1 row, then the columns of the L2 row.
EpochSelect(row) ==
    [k \in 1..8 |-> IF k <= 4 THEN <<HeaderColumns[k], row[1][HeaderColumns[k]]>>
                    ELSE <<HeaderColumns[k - 4], row[2][HeaderColumns[k - 4]]>>]

\* The fields of Epoch carrying column `name`, in declaration order.
FieldsNamed(name) ==
    SelectSeq([k \in 1..8 |-> k], LAMBDA k : EpochFields[k][2] = name)

\* A scan that sends every column to the first field carrying its name.
ScanFieldFirstMatch(cols, idx) == FieldsNamed(cols[idx][1])[1]

\* The field of Epoch that receives column idx: the n-th column of a name
\* goes to the n-th field of that name.
ScanField(cols, idx) ==
    LET name == cols[idx][1]
        seen == Len(SelectSeq(SubSeq(cols, 1, idx - 1), LAMBDA c : c[1] = name))
        cands == FieldsNamed(name)
    IN  IF seen < Len(cands) THEN cands[seen + 1] ELSE cands[1]

\* Take(&epoch): the row scanned into a zero Epoch; a later column assigned
\* to a field overwrites an earlier one.
ScanEpoch(cols) ==
    LET field == [idx \in 1..Len(cols) |-> EpochFields[ScanField(cols, idx)]]
    IN  [s \in {"L1BlockHeader", "L2BlockHeader"} |->
            [f \in Range(HeaderColumns) |->
                LET hits == {idx \in 1..Len(cols) : field[idx] = <<s, f>>}
                IN  IF hits = {} THEN BlockHeaderZero[f]
                    ELSE cols[CHOOSE i \in hits : \A j \in hits : j <= i][2]]]

\* Every value LatestEpoch may return in the current state.
LatestEpochResults ==
    IF EpochJoin = {} THEN {Nil}
    ELSE {ScanEpoch(EpochSelect(row)) : row \in EpochOrder(EpochJoin)}

LatestEpoch ==
    /\ \E epoch \in LatestEpochResults :
          ret' = [op |-> "LatestEpoch", arg |-> Nil, val |-> epoch, err |-> "nil"]
    /\ UNCHANGED <<headerTables, eventTables, checkpointTables, elsewhere>>

(***************************************************************************)
(* ContractEvent                                                           *)
(***************************************************************************)

EventColumns ==
    {"GUID", "BlockHash", "ContractAddress", "TransactionHash", "LogIndex",
     "EventSignature", "Timestamp"}

\* ContractEvent values handed to StoreL1ContractEvents / StoreL2ContractEvents.
\* Block b holds the one transaction b and is stamped b; log i of a
\* transaction is emitted by contract i+1 and carries topic i (log 0 has no
\* topics).  The log in RLPLog was taken before its derived fields were
\* final: no block hash yet, and an index that is off by one.
ContractEvent ==
    {[GUID |-> g, BlockHash |-> b, ContractAddress |-> i + 1,
      TransactionHash |-> b, LogIndex |-> i, EventSignature |-> i,
      Timestamp |-> b,
      RLPLog |-> [Address |-> i + 1,
                  Topics |-> IF i = 0 THEN <<>> ELSE <<i>>,
                  BlockHash |-> 0, TxHash |-> b, Index |-> i + 1]] :
        g \in GUIDs, b \in Hashes, i \in LogIndexes}

\* The Go zero value of each ContractEvent field.
ContractEventZero ==
    [GUID |-> 0, BlockHash |-> 0, ContractAddress |-> 0, TransactionHash |-> 0,
     LogIndex |-> 0, EventSignature |-> 0, Timestamp |-> 0, RLPLog |-> Nil]

\* GUID uuid.UUID `gorm:"primaryKey"`.
ContractEventPrimaryKey == {"GUID"}

\* (TransactionHash, LogIndex) is unique within a chain's table.
ContractEventLocationKey == {"TransactionHash", "LogIndex"}

ContractEventKeys == {ContractEventPrimaryKey, ContractEventLocationKey}

\* serializer:rlp, writing: a log is encoded as its consensus fields only.
EncodeRLP(log) == [Address |-> log.Address, Topics |-> log.Topics]

\* serializer:rlp, reading: the derived fields of a decoded log are blank.
DecodeRLP(bytes) ==
    [Address |-> bytes.Address, Topics |-> bytes.Topics,
     BlockHash |-> 0, TxHash |-> 0, Index |-> 0]

\* The row written for an event: its columns and rlp_bytes.
EventRow(c) == [c EXCEPT !.RLPLog = EncodeRLP(c.RLPLog)]

\* types.Log values handed to ContractEventFromLog: a log of transaction b+2
\* of block b, with no topic, one topic or two.
Log ==
    {[Address |-> a, Topics |-> t, BlockHash |-> b, TxHash |-> b + 2,
      Index |-> i] :
        a \in 1..2, t \in {<<>>, <<1>>, <<2, 1>>}, b \in Hashes,
        i \in LogIndexes}

\* The identifiers uuid.New() can still return: a version-4 UUID is drawn at
\* random and taken never to repeat.
UUIDSpace == 1..MaxUUIDs
NewUUID == UUIDSpace \ uuids

\* A conversion that derives the GUID from the log instead of generating it.
ContractEventFromLogDerivedGUID(log, timestamp) ==
    LET eventSig == IF Len(log.Topics) > 0 THEN log.Topics[1] ELSE 0
    IN  {[GUID |-> log.Index + 1,
          BlockHash |-> log.BlockHash, TransactionHash |-> log.TxHash,
          ContractAddress |-> log.Address,
          EventSignature |-> eventSig, LogIndex |-> log.Index,
          Timestamp |-> timestamp,
          RLPLog |-> log]}

\* The events ContractEventFromLog(log, timestamp) may return.
ContractEventFromLogResults(log, timestamp) ==
    LET eventSig == IF Len(log.Topics) > 0 THEN log.Topics[1] ELSE 0
    IN  {[GUID |-> guid,
          BlockHash |-> log.BlockHash, TransactionHash |-> log.TxHash,
          ContractAddress |-> log.Address,
          EventSignature |-> eventSig, LogIndex |-> log.Index,
          Timestamp |-> timestamp,
          RLPLog |-> log] : guid \in NewUUID}

ContractEventFromLog(log, timestamp) ==
    /\ \E event \in ContractEventFromLogResults(log, timestamp) :
          /\ ret' = [op |-> "ContractEventFromLog",
                     arg |-> [log |-> log, timestamp |-> timestamp],
                     val |-> event, err |-> "nil"]
          /\ uuids' = uuids \cup {event.GUID}
    /\ UNCHANGED <<headerTables, eventTables, checkpointTables, tx,
                   superchainConfig, disputeGame,
                   signalVars>>

\* A hook that forgets the log index.
AfterFindWithoutIndex(c) ==
    [c EXCEPT !.RLPLog.BlockHash = c.BlockHash,
              !.RLPLog.TxHash = c.TransactionHash]

\* (c *ContractEvent) AfterFind
AfterFind(c) ==
    [c EXCEPT !.RLPLog.BlockHash = c.BlockHash,
              !.RLPLog.TxHash = c.TransactionHash,
              !.RLPLog.Index = c.LogIndex]

\* Take / Find of one row: decode rlp_bytes, then run the AfterFind hook.
FindEvent(row) ==
    IF row = Nil THEN Nil
    ELSE AfterFind([row EXCEPT !.RLPLog = DecodeRLP(row.RLPLog)])

(***************************************************************************)
(* contractEventsDB                                                        *)
(***************************************************************************)

StoreL1ContractEvents(events) ==
    LET result == Create(l1_contract_events,
                         [i \in 1..Len(events) |-> EventRow(events[i])],
                         ContractEventKeys)
    IN  /\ l1_contract_events' = result.table
        /\ ret' = [op |-> "StoreL1ContractEvents", arg |-> events,
                   val |-> Nil, err |-> result.err]
        /\ UNCHANGED <<headerTables, l2_contract_events, checkpointTables, elsewhere>>

StoreL2ContractEvents(events) ==
    LET result == Create(l2_contract_events,
                         [i \in 1..Len(events) |-> EventRow(events[i])],
                         ContractEventKeys)
    IN  /\ l2_contract_events' = result.table
        /\ ret' = [op |-> "StoreL2ContractEvents", arg |-> events,
                   val |-> Nil, err |-> result.err]
        /\ UNCHANGED <<headerTables, l1_contract_events, checkpointTables, elsewhere>>

L1ContractEvent(uuid) ==
    /\ \E row \in TakeResults(Where(l1_contract_events,
              [ContractEventZero EXCEPT !.GUID = uuid], ContractEventZero)) :
          ret' = [op |-> "L1ContractEvent", arg |-> uuid,
                  val |-> FindEvent(row), err |-> "nil"]
    /\ UNCHANGED <<headerTables, eventTables, checkpointTables, elsewhere>>

L2ContractEvent(uuid) ==
    /\ \E row \in TakeResults(Where(l2_contract_events,
              [ContractEventZero EXCEPT !.GUID = uuid], ContractEventZero)) :
          ret' = [op |-> "L2ContractEvent", arg |-> uuid,
                  val |-> FindEvent(row), err |-> "nil"]
    /\ UNCHANGED <<headerTables, eventTables, checkpointTables, elsewhere>>

L1ContractEventByTxLogIndex(txHash, logIndex) ==
    /\ \E row \in TakeResults(Where(l1_contract_events,
              [ContractEventZero EXCEPT !.TransactionHash = txHash,
                                        !.LogIndex = logIndex],
              ContractEventZero)) :
          ret' = [op |-> "L1ContractEventByTxLogIndex",
                  arg |-> [txHash |-> txHash, logIndex |-> logIndex],
                  val |-> FindEvent(row), err |-> "nil"]
    /\ UNCHANGED <<headerTables, eventTables, checkpointTables, elsewhere>>

L2ContractEventByTxLogIndex(txHash, logIndex) ==
    /\ \E row \in TakeResults(Where(l2_contract_events,
              [ContractEventZero EXCEPT !.TransactionHash = txHash,
                                        !.LogIndex = logIndex],
              ContractEventZero)) :
          ret' = [op |-> "L2ContractEventByTxLogIndex",
                  arg |-> [txHash |-> txHash, logIndex |-> logIndex],
                  val |-> FindEvent(row), err |-> "nil"]
    /\ UNCHANGED <<headerTables, eventTables, checkpointTables, elsewhere>>

\* A range that leaves out its upper end.
HeightInRangeExclusive(number, fromHeight, toHeight) ==
    number >= (IF fromHeight = NilHeight THEN 0 ELSE fromHeight)
        /\ number < toHeight

\* if fromHeight == nil { fromHeight = 0 };  number >= ? AND number <= ?
HeightInRange(number, fromHeight, toHeight) ==
    number >= (IF fromHeight = NilHeight THEN 0 ELSE fromHeight)
        /\ number <= toHeight

\* Where(&filter) ... INNER JOIN headers ON block_hash = hash ... WHERE the
\* header's number is in range: the joined <<event row, header row>> pairs.
EventsJoin(events, headers, filter, fromHeight, toHeight) ==
    {<<e, h>> \in Where(events, filter, ContractEventZero) \X headers :
        /\ e.BlockHash = h.Hash
        /\ HeightInRange(h.Number, fromHeight, toHeight)}

\* Order("number ASC").Select("events.*").Find(&events): every sequence the
\* database may return, the joined rows by ascending header number (rows of
\* equal number in any order), each event decoded and passed to AfterFind.
ContractEventsWithFilterResults(events, headers, filter, fromHeight, toHeight) ==
    LET rows == EventsJoin(events, headers, filter, fromHeight, toHeight)
        n == Cardinality(rows)
        orders == {s \in [1..n -> rows] :
                      /\ \A i, j \in 1..n : i # j => s[i] # s[j]
                      /\ \A i, j \in 1..n :
                            i < j => s[i][2].Number <= s[j][2].Number}
    IN  {[i \in 1..n |-> FindEvent(s[i][1])] : s \in orders}

L1ContractEventsWithFilter(filter, fromHeight, toHeight) ==
    /\ \E events \in ContractEventsWithFilterResults(l1_contract_events,
              l1_block_headers, filter, fromHeight, toHeight) :
          ret' = [op |-> "L1ContractEventsWithFilter",
                  arg |-> [filter |-> filter, fromHeight |-> fromHeight,
                           toHeight |-> toHeight],
                  val |-> events, err |-> "nil"]
    /\ UNCHANGED <<headerTables, eventTables, checkpointTables, elsewhere>>

L2ContractEventsWithFilter(filter, fromHeight, toHeight) ==
    /\ \E events \in ContractEventsWithFilterResults(l2_contract_events,
              l2_block_headers, filter, fromHeight, toHeight) :
          ret' = [op |-> "L2ContractEventsWithFilter",
                  arg |-> [filter |-> filter, fromHeight |-> fromHeight,
                           toHeight |-> toHeight],
                  val |-> events, err |-> "nil"]
    /\ UNCHANGED <<headerTables, eventTables, checkpointTables, elsewhere>>

\* A copy loop that starts one element late: events[0] stays the zero value.
EmbeddedContractEventsFromSecond(chainEvents) ==
    [i \in 1..Len(chainEvents) |->
        IF i = 1 THEN ContractEventZero ELSE chainEvents[i]]

\* events := make([]ContractEvent, len(l1Events));
\* for i := range l1Events { events[i] = l1Events[i].ContractEvent }
EmbeddedContractEvents(chainEvents) ==
    [i \in 1..Len(chainEvents) |-> chainEvents[i]]

\* switch chain { case "l1": ...; case "l2": ...; default: error }
ContractEventsWithFilter(filter, chain, fromHeight, toHeight) ==
    /\ \/ /\ chain = "l1"
          /\ \E l1Events \in ContractEventsWithFilterResults(l1_contract_events,
                    l1_block_headers, filter, fromHeight, toHeight) :
                ret' = [op |-> "ContractEventsWithFilter",
                        arg |-> [filter |-> filter, chain |-> chain,
                                 fromHeight |-> fromHeight,
                                 toHeight |-> toHeight],
                        val |-> EmbeddedContractEvents(l1Events), err |-> "nil"]
       \/ /\ chain = "l2"
          /\ \E l2Events \in ContractEventsWithFilterResults(l2_contract_events,
                    l2_block_headers, filter, fromHeight, toHeight) :
                ret' = [op |-> "ContractEventsWithFilter",
                        arg |-> [filter |-> filter, chain |-> chain,
                                 fromHeight |-> fromHeight,
                                 toHeight |-> toHeight],
                        val |-> EmbeddedContractEvents(l2Events), err |-> "nil"]
       \/ /\ chain \notin {"l1", "l2"}
          /\ ret' = [op |-> "ContractEventsWithFilter",
                     arg |-> [filter |-> filter, chain |-> chain,
                              fromHeight |-> fromHeight,
                              toHeight |-> toHeight],
                     val |-> Nil,
                     err |-> "expected 'l1' or 'l2' for chain type"]
    /\ UNCHANGED <<headerTables, eventTables, checkpointTables, elsewhere>>

(***************************************************************************)
(* SuperchainConfig (contracts-bedrock/src/L1/SuperchainConfig.sol)        *)
(***************************************************************************)

\* Accounts that send transactions; address(0) sends none.
Addresses == 1..3

\* Constants.INITIALIZER, the version handed to reinitializer.
INITIALIZER == 1

\* The storage the contract runs on before any initialize has run on it:
\* GUARDIAN_SLOT, PAUSED_SLOT and Initializable's _initialized are zero.
SuperchainConfigStorage == [guardian |-> 0, paused |-> 0, initialized |-> 0]

\* A check that lets every caller through.
IsAnyone(sender) == TRUE

\* msg.sender == guardian()
IsGuardian(sender) == sender = superchainConfig.guardian

\* initialize(_guardian) public reinitializer(Constants.INITIALIZER); the
\* constructor makes the same call with address(0).
SuperchainConfig_initialize(sender, _guardian) ==
    /\ IF superchainConfig.initialized < INITIALIZER
       THEN /\ superchainConfig' =
                  [superchainConfig EXCEPT !.initialized = INITIALIZER,
                                           !.guardian = _guardian]
            /\ ret' = [op |-> "initialize",
                       arg |-> [sender |-> sender, _guardian |-> _guardian],
                       val |-> [event |-> "ConfigUpdate", data |-> _guardian],
                       err |-> "nil"]
       ELSE /\ UNCHANGED superchainConfig
            /\ ret' = [op |-> "initialize",
                       arg |-> [sender |-> sender, _guardian |-> _guardian],
                       val |-> Nil,
                       err |-> "Initializable: contract is already initialized"]
    /\ UNCHANGED <<headerTables, eventTables, checkpointTables, tx, uuids,
                   disputeGame,
                   signalVars>>

\* guardian() public view
SuperchainConfig_guardian(sender) ==
    /\ ret' = [op |-> "guardian", arg |-> [sender |-> sender],
               val |-> superchainConfig.guardian, err |-> "nil"]
    /\ UNCHANGED <<headerTables, eventTables, checkpointTables, elsewhere>>

\* paused() public view
SuperchainConfig_paused(sender) ==
    /\ ret' = [op |-> "paused", arg |-> [sender |-> sender],
               val |-> (superchainConfig.paused = 1), err |-> "nil"]
    /\ UNCHANGED <<headerTables, eventTables, checkpointTables, elsewhere>>

\* pause(identifier) external
SuperchainConfig_pause(sender, identifier) ==
    /\ IF IsGuardian(sender)
       THEN /\ superchainConfig' = [superchainConfig EXCEPT !.paused = 1]
            /\ ret' = [op |-> "pause",
                       arg |-> [sender |-> sender, identifier |-> identifier],
                       val |-> [event |-> "Paused", data |-> identifier],
                       err |-> "nil"]
       ELSE /\ UNCHANGED superchainConfig
            /\ ret' = [op |-> "pause",
                       arg |-> [sender |-> sender, identifier |-> identifier],
                       val |-> Nil,
                       err |-> "SuperchainConfig: only guardian can pause"]
    /\ UNCHANGED <<headerTables, eventTables, checkpointTables, tx, uuids,
                   disputeGame,
                   signalVars>>

\* unpause() external
SuperchainConfig_unpause(sender) ==
    /\ IF IsGuardian(sender)
       THEN /\ superchainConfig' = [superchainConfig EXCEPT !.paused = 0]
            /\ ret' = [op |-> "unpause", arg |-> [sender |-> sender],
                       val |-> [event |-> "Unpaused", data |-> Nil],
                       err |-> "nil"]
       ELSE /\ UNCHANGED superchainConfig
            /\ ret' = [op |-> "unpause", arg |-> [sender |-> sender],
                       val |-> Nil,
                       err |-> "SuperchainConfig: only guardian can unpause"]
    /\ UNCHANGED <<headerTables, eventTables, checkpointTables, tx, uuids,
                   disputeGame,
                   signalVars>>

(***************************************************************************)
(* PermissionedDisputeGame                                                 *)
(* (contracts-bedrock/src/dispute/PermissionedDisputeGame.sol)             *)
(***************************************************************************)

\* A contract that forwards calls (a factory, a wallet); it never signs a
\* transaction itself.
Forwarder == 4

\* Who calls: tx.origin is an account, msg.sender is the account itself or a
\* contract the account called.
Calls ==
    {[origin |-> o, sender |-> m] :
        o \in Addresses, m \in Addresses \cup {Forwarder}}
    \ {c \in [origin : Addresses, sender : Addresses] : c.origin # c.sender}

\* The game after its constructor: PROPOSER = _proposer (account 1),
\* CHALLENGER = _challenger (account 2), and FaultDisputeGame's storage
\* before initialize: no claim, not initialized.
PermissionedDisputeGameStorage ==
    [PROPOSER |-> 1, CHALLENGER |-> 2, initialized |-> FALSE, claimData |-> <<>>]

\* The check made on tx.origin instead of msg.sender.
onlyAuthorizedOrigin(call) ==
    call.origin = disputeGame.PROPOSER \/ call.origin = disputeGame.CHALLENGER

\* modifier onlyAuthorized: msg.sender == PROPOSER || msg.sender == CHALLENGER
onlyAuthorized(call) ==
    call.sender = disputeGame.PROPOSER \/ call.sender = disputeGame.CHALLENGER

\* super.initialize(): FaultDisputeGame records the root claim for the
\* creator of the game, once.
SuperInitialize(call) ==
    IF disputeGame.initialized
    THEN [game |-> disputeGame, err |-> "AlreadyInitialized"]
    ELSE [game |-> [disputeGame EXCEPT
                       !.initialized = TRUE,
                       !.claimData = <<[claimant |-> call.origin,
                                        counteredBy |-> 0]>>],
          err |-> "nil"]

\* super.move(_challengeIndex, _claim, _isAttack): FaultDisputeGame appends
\* a claim of msg.sender against an existing claim, or reverts.
SuperMove(call, _challengeIndex) ==
    IF /\ disputeGame.initialized
       /\ _challengeIndex < Len(disputeGame.claimData)
       /\ Len(disputeGame.claimData) < MaxClaims
    THEN {[game |-> [disputeGame EXCEPT
                        !.claimData = Append(@, [claimant |-> call.sender,
                                                 counteredBy |-> 0])],
           err |-> "nil"],
          [game |-> disputeGame, err |-> "ClaimAlreadyExists"]}
    ELSE {[game |-> disputeGame, err |-> "InvalidParent"]}

\* super.step(_claimIndex, _isAttack, _stateData, _proof): FaultDisputeGame
\* marks the claim countered by msg.sender, or reverts.
SuperStep(call, _claimIndex) ==
    IF /\ disputeGame.initialized
       /\ _claimIndex < Len(disputeGame.claimData)
       /\ disputeGame.claimData[_claimIndex + 1].counteredBy = 0
    THEN {[game |-> [disputeGame EXCEPT
                        !.claimData[_claimIndex + 1].counteredBy = call.sender],
           err |-> "nil"],
          [game |-> disputeGame, err |-> "ValidStep"]}
    ELSE {[game |-> disputeGame, err |-> "InvalidParent"]}

\* step(...) public override onlyAuthorized
PermissionedDisputeGame_step(call, _claimIndex, _isAttack) ==
    /\ \E result \in (IF onlyAuthorized(call) THEN SuperStep(call, _claimIndex)
                       ELSE {[game |-> disputeGame, err |-> "BadAuth"]}) :
          /\ disputeGame' = result.game
          /\ ret' = [op |-> "PermissionedDisputeGame.step",
                     arg |-> [call |-> call, _claimIndex |-> _claimIndex,
                              _isAttack |-> _isAttack],
                     val |-> Nil, err |-> result.err]
    /\ UNCHANGED <<headerTables, eventTables, checkpointTables, tx, uuids,
                   superchainConfig,
                   signalVars>>

\* move(...) public payable override onlyAuthorized
PermissionedDisputeGame_move(call, _challengeIndex, _isAttack) ==
    /\ \E result \in (IF onlyAuthorized(call)
                       THEN SuperMove(call, _challengeIndex)
                       ELSE {[game |-> disputeGame, err |-> "BadAuth"]}) :
          /\ disputeGame' = result.game
          /\ ret' = [op |-> "PermissionedDisputeGame.move",
                     arg |-> [call |-> call, _challengeIndex |-> _challengeIndex,
                              _isAttack |-> _isAttack],
                     val |-> Nil, err |-> result.err]
    /\ UNCHANGED <<headerTables, eventTables, checkpointTables, tx, uuids,
                   superchainConfig,
                   signalVars>>

\* initialize() public payable override
PermissionedDisputeGame_initialize(call) ==
    /\ LET result == IF call.origin # disputeGame.PROPOSER
                     THEN [game |-> disputeGame, err |-> "BadAuth"]
                     ELSE SuperInitialize(call)
       IN  /\ disputeGame' = result.game
           /\ ret' = [op |-> "PermissionedDisputeGame.initialize",
                      arg |-> [call |-> call], val |-> Nil, err |-> result.err]
    /\ UNCHANGED <<headerTables, eventTables, checkpointTables, tx, uuids,
                   superchainConfig,
                   signalVars>>

(***************************************************************************)
(* interruptSignalCatcher (package opio)                                   *)
(***************************************************************************)

\* Signals the operating system may send the process; SIGHUP stands for
\* every signal the catcher did not ask for.
Signals == {"interrupt", "terminated", "hangup"}

\* var defaultSignals = []os.Signal{os.Interrupt, syscall.SIGTERM}
defaultSignals == {"interrupt", "terminated"}

\* make(chan os.Signal, 10)
IncomingCapacity == 10

\* The goroutines that call waitForInterrupt, each with a context of its own.
Waiters == 1..MaxWaiters

\* What context.Cause reports: the cause handed to the cancel function, or
\* the plain context error.
Causes == {"context canceled", "shutdown"}

\* A context that is not done.
Background == [done |-> FALSE, cause |-> "nil"]

\* waitInterruptResult: Interrupt and CtxError are nil unless set.
waitInterruptResult(Interrupt, CtxError) ==
    [Interrupt |-> Interrupt, CtxError |-> CtxError]

\* fmt.Errorf("received interrupt signal %v", signalValue)
InterruptError(signalValue) == "received interrupt signal " \o signalValue

\* The process receives a signal: the runtime hands it to every channel
\* registered for it without blocking, and drops it when the buffer is full.
Signal(sig) ==
    /\ delivered < MaxSignals
    /\ IF notify /\ sig \in defaultSignals /\ Len(incoming) < IncomingCapacity
       THEN /\ incoming' = Append(incoming, sig)
            /\ delivered' = delivered + 1
       ELSE UNCHANGED <<incoming, delivered>>
    /\ UNCHANGED <<headerTables, eventTables, checkpointTables, ret, tx, uuids,
                   superchainConfig, disputeGame, notify, ctx, waiters>>

\* Stop: signal.Stop(me.incoming); the channel stays open and keeps what it
\* holds.
Stop ==
    /\ notify' = FALSE
    /\ UNCHANGED <<headerTables, eventTables, checkpointTables, ret, tx, uuids,
                   superchainConfig, disputeGame, incoming, delivered, ctx,
                   waiters>>

\* The context of waiter w is cancelled with a cause; the first cancellation
\* counts.
Cancel(w, cause) ==
    /\ ~ctx[w].done
    /\ ctx' = [ctx EXCEPT ![w] = [done |-> TRUE, cause |-> cause]]
    /\ UNCHANGED <<headerTables, eventTables, checkpointTables, ret, tx, uuids,
                   superchainConfig, disputeGame, incoming, notify, delivered,
                   waiters>>

\* A goroutine enters waitForInterrupt(ctx) and reaches the select.
Call(w) ==
    /\ waiters[w].pc = "idle"
    /\ waiters' = [waiters EXCEPT ![w].pc = "select"]
    /\ UNCHANGED <<headerTables, eventTables, checkpointTables, ret, tx, uuids,
                   superchainConfig, disputeGame, incoming, notify, delivered,
                   ctx>>

\* A receive that leaves the signal in the channel.
SelectCasesPeeking(w) ==
    {[result |-> waitInterruptResult(InterruptError(Head(incoming)), "nil"),
      incoming |-> incoming] : x \in {y \in {1} : incoming # <<>>}}
    \cup
    {[result |-> waitInterruptResult("nil", ctx[w].cause),
      incoming |-> incoming] : x \in {y \in {1} : ctx[w].done}}

\* The cases of the select that can proceed: a receive from me.incoming
\* takes the oldest signal out of the buffer; ctx.Done() is closed once the
\* context is cancelled.  When both can, select takes either.
SelectCases(w) ==
    {[result |-> waitInterruptResult(InterruptError(Head(incoming)), "nil"),
      incoming |-> Tail(incoming)] : x \in {y \in {1} : incoming # <<>>}}
    \cup
    {[result |-> waitInterruptResult("nil", ctx[w].cause),
      incoming |-> incoming] : x \in {y \in {1} : ctx[w].done}}

\* waitForInterrupt(ctx): the select blocks while no case can proceed, then
\* the call returns the result of the case taken.
waitForInterrupt(w) ==
    /\ waiters[w].pc = "select"
    /\ \E case \in SelectCases(w) :
          /\ waiters' = [waiters EXCEPT ![w] = [pc |-> "returned",
                                                result |-> case.result]]
          /\ incoming' = case.incoming
    /\ UNCHANGED <<headerTables, eventTables, checkpointTables, ret, tx, uuids,
                   superchainConfig, disputeGame, notify, delivered, ctx>>

(***************************************************************************)
(* Specifications                                                          *)
(***************************************************************************)


Init ==
    /\ l1_block_headers = {}
    /\ l2_block_headers = {}
    /\ l1_contract_events = {}
    /\ l2_contract_events = {}
    /\ legacy_state_batches = {}
    /\ output_proposals = {}
    /\ ret = [op |-> "init", arg |-> Nil, val |-> Nil, err |-> "nil"]
    /\ tx = Nil
    /\ uuids = {}
    /\ superchainConfig = SuperchainConfigStorage
    /\ disputeGame = PermissionedDisputeGameStorage
    /\ incoming = <<>>
    /\ notify = TRUE
    /\ delivered = 0
    /\ ctx = [w \in Waiters |-> Background]
    /\ waiters = [w \in Waiters |-> [pc |-> "idle", result |-> Nil]]

\* Headers as the fetcher of one chain numbers them: block n is stamped n+1.
FetchedBlockHeader == {h \in BlockHeader : h.Timestamp = h.Number + 1}

\* The Header Store under bulk inserts.
NextStoreHeaders ==
    \/ \E headers \in SeqsUpTo(FetchedBlockHeader, MaxBatch) :
          StoreL1BlockHeaders(headers)
    \/ \E headers \in SeqsUpTo(FetchedBlockHeader, MaxBatch) :
          StoreL2BlockHeaders(headers)

SpecStoreHeaders == Init /\ [][NextStoreHeaders]_vars

\* The Header Store and Epoch Derivation: one header per insert, every read.
NextBlocks ==
    \/ \E header \in BlockHeader : StoreL1BlockHeaders(<<header>>)
    \/ \E header \in BlockHeader : StoreL2BlockHeaders(<<header>>)
    \/ \E height \in Heights : L1BlockHeader(height)
    \/ \E height \in Heights : L2BlockHeader(height)
    \/ LatestL1BlockHeader
    \/ LatestL2BlockHeader
    \/ LatestEpoch

SpecBlocks == Init /\ [][NextBlocks]_vars

\* The Event Store under bulk inserts: the events of block 1.
NextStoreEvents ==
    \/ \E events \in SeqsUpTo({c \in ContractEvent : c.BlockHash = 1}, MaxBatch) :
          StoreL1ContractEvents(events)
    \/ \E events \in SeqsUpTo({c \in ContractEvent : c.BlockHash = 1}, MaxBatch) :
          StoreL2ContractEvents(events)

SpecStoreEvents == Init /\ [][NextStoreEvents]_vars

\* Chain selectors handed to the dual-chain entry point.
ChainSelectors == {"l1", "l2", "L1", ""}

\* Filter templates: nothing set, a BlockHash set, a ContractAddress set.
FilterTemplates ==
    {ContractEventZero, [ContractEventZero EXCEPT !.BlockHash = 1],
     [ContractEventZero EXCEPT !.ContractAddress = 2]}

\* The canonical chain the events refer to: block b has number b-1 and is
\* stamped b.
CanonicalBlockHeader ==
    {h \in BlockHeader : h.Number = h.Hash - 1 /\ h.Timestamp = h.Hash}

\* At most MaxRows rows in the four tables together.
RowsBound ==
    Cardinality(l1_block_headers) + Cardinality(l2_block_headers)
        + Cardinality(l1_contract_events) + Cardinality(l2_contract_events)
        <= MaxRows

\* The Event Store over the Header Store: one row per insert, every read.
NextEvents ==
    \/ \E header \in CanonicalBlockHeader :
          StoreL1BlockHeaders(<<header>>) /\ RowsBound'
    \/ \E header \in CanonicalBlockHeader :
          StoreL2BlockHeaders(<<header>>) /\ RowsBound'
    \/ \E event \in ContractEvent :
          StoreL1ContractEvents(<<event>>) /\ RowsBound'
    \/ \E event \in ContractEvent :
          StoreL2ContractEvents(<<event>>) /\ RowsBound'
    \/ \E uuid \in GUIDs \cup {NilUUID} : L1ContractEvent(uuid)
    \/ \E uuid \in GUIDs \cup {NilUUID} : L2ContractEvent(uuid)
    \/ \E txHash \in Hashes, logIndex \in LogIndexes :
          L1ContractEventByTxLogIndex(txHash, logIndex)
    \/ \E txHash \in Hashes, logIndex \in LogIndexes :
          L2ContractEventByTxLogIndex(txHash, logIndex)
    \/ \E filter \in FilterTemplates, fromHeight \in {NilHeight, 1},
          toHeight \in Numbers :
          L1ContractEventsWithFilter(filter, fromHeight, toHeight)
    \/ \E filter \in FilterTemplates, fromHeight \in {NilHeight, 1},
          toHeight \in Numbers :
          L2ContractEventsWithFilter(filter, fromHeight, toHeight)
    \/ \E filter \in {ContractEventZero,
                       [ContractEventZero EXCEPT !.ContractAddress = 2]},
          chain \in ChainSelectors, toHeight \in Numbers :
          ContractEventsWithFilter(filter, chain, NilHeight, toHeight)

SpecEvents == Init /\ [][NextEvents]_vars

\* Indexes asked for: nil, every stored index and one beyond them.
IndexesAsked == {NilHeight} \cup OutputIndexes \cup {2}

\* Checkpoint Linkage: bulk inserts and both reads.
NextCheckpoints ==
    \/ \E stateBatches \in SeqsUpTo(LegacyStateBatch, MaxBatch) :
          StoreLegacyStateBatches(stateBatches)
    \/ \E outputs \in SeqsUpTo(OutputProposal, MaxBatch) :
          StoreOutputProposals(outputs)
    \/ LatestCheckpointedOutput
    \/ \E index \in IndexesAsked : OutputProposalAt(index)

SpecCheckpoints == Init /\ [][NextCheckpoints]_vars

\* At most MaxRows rows in the six tables together.
AllRowsBound ==
    Cardinality(l1_block_headers) + Cardinality(l2_block_headers)
        + Cardinality(l1_contract_events) + Cardinality(l2_contract_events)
        + Cardinality(legacy_state_batches) + Cardinality(output_proposals)
        <= MaxRows

\* The second log of block 1, under either identifier.
SecondLogEvents == {c \in ContractEvent : c.LogIndex = 1 /\ c.BlockHash = 1}

\* Both chains side by side: the same headers and events offered to either
\* chain one row per insert, the checkpoints, and every read.
NextChains ==
    \/ \E header \in CanonicalBlockHeader :
          StoreL1BlockHeaders(<<header>>) /\ AllRowsBound'
    \/ \E header \in CanonicalBlockHeader :
          StoreL2BlockHeaders(<<header>>) /\ AllRowsBound'
    \/ \E event \in SecondLogEvents :
          StoreL1ContractEvents(<<event>>) /\ AllRowsBound'
    \/ \E event \in SecondLogEvents :
          StoreL2ContractEvents(<<event>>) /\ AllRowsBound'
    \/ \E stateBatch \in LegacyStateBatch :
          StoreLegacyStateBatches(<<stateBatch>>) /\ AllRowsBound'
    \/ \E output \in {o \in OutputProposal : o.OutputRoot = o.L2OutputIndex + 1} :
          StoreOutputProposals(<<output>>) /\ AllRowsBound'
    \/ \E height \in Numbers : L1BlockHeader(height)
    \/ \E height \in Numbers : L2BlockHeader(height)
    \/ LatestL1BlockHeader
    \/ LatestL2BlockHeader
    \/ LatestEpoch
    \/ \E uuid \in GUIDs : L1ContractEvent(uuid)
    \/ \E uuid \in GUIDs : L2ContractEvent(uuid)
    \/ L1ContractEventByTxLogIndex(1, 1)
    \/ L2ContractEventByTxLogIndex(1, 1)
    \/ L1ContractEventsWithFilter(ContractEventZero, NilHeight, 1)
    \/ L2ContractEventsWithFilter(ContractEventZero, NilHeight, 1)
    \/ LatestCheckpointedOutput
    \/ \E index \in OutputIndexes : OutputProposalAt(index)

SpecChains == Init /\ [][NextChains]_vars

(***************************************************************************)
(* Store* calls running while other callers read                           *)
(***************************************************************************)

StoreOps ==
    {"StoreL1BlockHeaders", "StoreL2ContractEvents",
     "StoreLegacyStateBatches", "StoreOutputProposals"}

\* The rows a Store* call hands to Create, and the table and keys they meet.
StoreRows(op, rows) ==
    IF op = "StoreL2ContractEvents"
    THEN [i \in 1..Len(rows) |-> EventRow(rows[i])]
    ELSE rows

StoreTable(op) ==
    CASE op = "StoreL1BlockHeaders" -> l1_block_headers
      [] op = "StoreL2ContractEvents" -> l2_contract_events
      [] op = "StoreLegacyStateBatches" -> legacy_state_batches
      [] op = "StoreOutputProposals" -> output_proposals

StoreKeys(op) ==
    CASE op = "StoreL1BlockHeaders" -> BlockHeaderKeys
      [] op = "StoreL2ContractEvents" -> ContractEventKeys
      [] op = "StoreLegacyStateBatches" -> LegacyStateBatchKeys
      [] op = "StoreOutputProposals" -> OutputProposalKeys

\* Rows in the six tables together.
RowsStored ==
    Cardinality(l1_block_headers) + Cardinality(l2_block_headers)
        + Cardinality(l1_contract_events) + Cardinality(l2_contract_events)
        + Cardinality(legacy_state_batches) + Cardinality(output_proposals)

\* The writer calls Store*: db.gorm.Create hands the INSERT to the database.
\* Nothing of it is visible to other callers yet.
BeginStore(op, rows) ==
    /\ tx = Nil
    /\ RowsStored + Len(rows) <= MaxRows
    /\ tx' = [op |-> op, rows |-> rows]
    /\ UNCHANGED <<headerTables, eventTables, checkpointTables, ret, uuids,
                   superchainConfig, disputeGame,
                   signalVars>>

\* The INSERT completes: it commits every row or fails and leaves none, and
\* the Store* call returns result.Error.
CommitStore ==
    /\ tx # Nil
    /\ LET result == Create(StoreTable(tx.op), StoreRows(tx.op, tx.rows),
                            StoreKeys(tx.op))
       IN  /\ l1_block_headers' =
                 IF tx.op = "StoreL1BlockHeaders" THEN result.table
                 ELSE l1_block_headers
           /\ l2_contract_events' =
                 IF tx.op = "StoreL2ContractEvents" THEN result.table
                 ELSE l2_contract_events
           /\ legacy_state_batches' =
                 IF tx.op = "StoreLegacyStateBatches" THEN result.table
                 ELSE legacy_state_batches
           /\ output_proposals' =
                 IF tx.op = "StoreOutputProposals" THEN result.table
                 ELSE output_proposals
           /\ ret' = [op |-> tx.op, arg |-> tx.rows, val |-> Nil,
                      err |-> result.err]
    /\ tx' = Nil
    /\ UNCHANGED <<l2_block_headers, l1_contract_events, uuids,
                   superchainConfig, disputeGame,
                   signalVars>>

\* Two rows per table: blocks 1 and 2, logs 0 and 1 of transaction 1,
\* state batches 0 and 1, outputs 0 and 1.
BatchesOf(op) ==
    SeqsUpTo(CASE op = "StoreL1BlockHeaders" -> CanonicalBlockHeader
               [] op = "StoreL2ContractEvents" ->
                     {c \in ContractEvent :
                         c.BlockHash = 1 /\ c.LogIndex = c.GUID - 1}
               [] op = "StoreLegacyStateBatches" -> LegacyStateBatch
               [] op = "StoreOutputProposals" ->
                     {o \in OutputProposal : o.OutputRoot = o.L2OutputIndex + 1},
             MaxBatch)

\* One writer and any number of readers.
NextConcurrent ==
    \/ \E op \in StoreOps : \E rows \in BatchesOf(op) : BeginStore(op, rows)
    \/ CommitStore
    \/ LatestL1BlockHeader
    \/ \E uuid \in GUIDs : L2ContractEvent(uuid)
    \/ LatestCheckpointedOutput

SpecConcurrent == Init /\ [][NextConcurrent]_vars

\* Ingestion: logs turned into events.
NextFromLog ==
    \E log \in Log, timestamp \in Timestamps :
        ContractEventFromLog(log, timestamp)

SpecFromLog == Init /\ [][NextFromLog]_vars

\* Calls to SuperchainConfig by any account.
NextSuperchainConfig ==
    \/ \E sender \in Addresses, _guardian \in {0} \cup Addresses :
          SuperchainConfig_initialize(sender, _guardian)
    \/ \E sender \in Addresses : SuperchainConfig_guardian(sender)
    \/ \E sender \in Addresses : SuperchainConfig_paused(sender)
    \/ \E sender \in Addresses, identifier \in {"", "id"} :
          SuperchainConfig_pause(sender, identifier)
    \/ \E sender \in Addresses : SuperchainConfig_unpause(sender)

SpecSuperchainConfig == Init /\ [][NextSuperchainConfig]_vars

\* Calls to one PermissionedDisputeGame by any account, directly or through
\* a contract.
NextDisputeGame ==
    \/ \E call \in Calls : PermissionedDisputeGame_initialize(call)
    \/ \E call \in Calls, _challengeIndex \in 0..(MaxClaims - 1),
          _isAttack \in BOOLEAN :
          PermissionedDisputeGame_move(call, _challengeIndex, _isAttack)
    \/ \E call \in Calls, _claimIndex \in 0..(MaxClaims - 1),
          _isAttack \in BOOLEAN :
          PermissionedDisputeGame_step(call, _claimIndex, _isAttack)

SpecDisputeGame == Init /\ [][NextDisputeGame]_vars

\* One catcher made by newSignalInterrupter, the signals of the operating
\* system, and goroutines that wait on it with contexts that may be
\* cancelled.
NextWaitForInterrupt ==
    \/ \E sig \in Signals : Signal(sig)
    \/ Stop
    \/ \E w \in Waiters, cause \in Causes : Cancel(w, cause)
    \/ \E w \in Waiters : Call(w)
    \/ \E w \in Waiters : waitForInterrupt(w)

\* The scheduler runs a goroutine whose select can proceed.
SpecWaitForInterrupt ==
    /\ Init
    /\ [][NextWaitForInterrupt]_vars
    /\ \A w \in Waiters : WF_vars(waitForInterrupt(w))

\* Every operation of both stores.
Next == NextStoreHeaders \/ NextBlocks \/ NextStoreEvents \/ NextEvents

Spec == Init /\ [][Next]_vars

(***************************************************************************)
(* Properties of the Header Store and of Epoch Derivation                  *)
(***************************************************************************)

HashStored(batch, table) ==
    {i \in 1..Len(batch) : \E x \in table : x.Hash = batch[i].Hash}

NumbersUnique(table) == \A x, y \in table : x.Number = y.Number => x = y

\* C1: a StoreL1BlockHeaders / StoreL2BlockHeaders call whose batch holds a
\* header whose Hash is already in that chain's table fails with a
\* duplicate-key error and leaves that table exactly as it was: no header of
\* the batch is persisted, the ones with fresh hashes included.
C1_StoreHeadersDuplicateKeyAtomic ==
    [][/\ (/\ ret'.op = "StoreL1BlockHeaders"
           /\ HashStored(ret'.arg, l1_block_headers) # {})
          => (/\ ret'.err = "DuplicateKey"
              /\ l1_block_headers' = l1_block_headers)
       /\ (/\ ret'.op = "StoreL2BlockHeaders"
           /\ HashStored(ret'.arg, l2_block_headers) # {})
          => (/\ ret'.err = "DuplicateKey"
              /\ l2_block_headers' = l2_block_headers)]_vars

\* A failed batch that held a stored hash and a fresh one.
C1_Witness ==
    /\ ret.op = "StoreL1BlockHeaders"
    /\ ret.err = "DuplicateKey"
    /\ Len(ret.arg) = 2
    /\ Cardinality(HashStored(ret.arg, l1_block_headers)) = 1
    /\ l2_block_headers # {}

HeaderAtAnswer(table, n, val) ==
    IF \E h \in table : h.Number = n
    THEN val \in table /\ val.Number = n
    ELSE val = Nil

\* C2: while the Numbers of a chain's stored headers are unique,
\* L1BlockHeader(n) / L2BlockHeader(n) returns the stored header with
\* Number n (n = 0 included), equal in Hash, ParentHash, Number and
\* Timestamp, and returns (nil, nil) when no stored header has Number n;
\* it never returns another Number and never an error.
C2_HeaderAtExact ==
    /\ (ret.op = "L1BlockHeader" /\ ret.arg # NilHeight
            /\ NumbersUnique(l1_block_headers))
       => (ret.err = "nil" /\ HeaderAtAnswer(l1_block_headers, ret.arg, ret.val))
    /\ (ret.op = "L2BlockHeader" /\ ret.arg # NilHeight
            /\ NumbersUnique(l2_block_headers))
       => (ret.err = "nil" /\ HeaderAtAnswer(l2_block_headers, ret.arg, ret.val))

\* Height 0 asked of a table holding blocks 0 and 1.
C2_Witness ==
    /\ ret.op = "L1BlockHeader"
    /\ ret.arg = 0
    /\ ret.val # Nil
    /\ Cardinality(l1_block_headers) = 2
    /\ NumbersUnique(l1_block_headers)

LatestAnswer(table, val) ==
    IF table = {} THEN val = Nil
    ELSE val \in table /\ \A o \in table : o.Number <= val.Number

\* C3: LatestL1BlockHeader / LatestL2BlockHeader returns a stored header of
\* its chain whose Number is the maximum over that chain's table, and
\* returns (nil, nil) exactly when the table is empty.
C3_LatestHeaderIsMax ==
    /\ ret.op = "LatestL1BlockHeader"
       => (ret.err = "nil" /\ LatestAnswer(l1_block_headers, ret.val))
    /\ ret.op = "LatestL2BlockHeader"
       => (ret.err = "nil" /\ LatestAnswer(l2_block_headers, ret.val))

\* The latest of two L2 headers with different Numbers.
C3_Witness ==
    /\ ret.op = "LatestL2BlockHeader"
    /\ ret.val # Nil
    /\ \E o \in l2_block_headers : o.Number < ret.val.Number

\* Timestamps carried by a header of both chains.
SharedTimestamps ==
    {a.Timestamp : a \in l1_block_headers} \cap
    {b.Timestamp : b \in l2_block_headers}

C4_Result ==
    ret.op = "LatestEpoch"
    => /\ ret.err = "nil"
       /\ (ret.val = Nil) <=> (SharedTimestamps = {})
       /\ ret.val # Nil
          => /\ ret.val.L1BlockHeader.Timestamp \in SharedTimestamps
             /\ \A t \in SharedTimestamps : t <= ret.val.L1BlockHeader.Timestamp

C4_StoreUnmatched ==
    (/\ ret'.op = "StoreL1BlockHeaders"
     /\ ret'.err = "nil"
     /\ \A i \in 1..Len(ret'.arg) : \A b \in l2_block_headers :
           b.Timestamp # ret'.arg[i].Timestamp)
    => LatestEpochResults' = LatestEpochResults

\* C4: LatestEpoch returns (nil, nil) when no stored L1 header and stored L2
\* header have equal Timestamp, and otherwise a pair whose Timestamp is the
\* greatest one carried by a header of both chains; storing an L1 header
\* whose Timestamp matches no L2 header leaves what LatestEpoch returns
\* unchanged.
C4_LatestEpochGreatestShared == []C4_Result /\ [][C4_StoreUnmatched]_vars

\* Both timestamps are shared and the newer pair is returned.
C4_Witness ==
    /\ ret.op = "LatestEpoch"
    /\ Cardinality(SharedTimestamps) = 2
    /\ ret.val # Nil
    /\ ret.val.L1BlockHeader.Timestamp = 2

\* C5: an Epoch returned by LatestEpoch has as L1BlockHeader a header stored
\* in the L1 table and as L2BlockHeader a header stored in the L2 table
\* (Hash, ParentHash, Number, Timestamp), and the two have equal Timestamp.
C5_EpochComponentsStored ==
    (ret.op = "LatestEpoch" /\ ret.val # Nil)
    => /\ ret.val.L1BlockHeader \in l1_block_headers
       /\ ret.val.L2BlockHeader \in l2_block_headers
       /\ ret.val.L1BlockHeader.Timestamp = ret.val.L2BlockHeader.Timestamp

\* One L1 header, two L2 headers of different timestamps; the pair returned
\* keeps two different Hashes and Numbers.
C5_Witness ==
    /\ ret.op = "LatestEpoch"
    /\ ret.val # Nil
    /\ Cardinality(l1_block_headers) = 1
    /\ Cardinality(l2_block_headers) = 2
    /\ Cardinality(SharedTimestamps) = 1
    /\ ret.val.L1BlockHeader.Hash # ret.val.L2BlockHeader.Hash
    /\ ret.val.L1BlockHeader.Number # ret.val.L2BlockHeader.Number

(***************************************************************************)
(* Properties of the Event Store                                           *)
(***************************************************************************)

ColumnsOf(c) == [f \in EventColumns |-> c[f]]

ByLocationAnswer(table, arg, val) ==
    IF \E e \in table :
          e.TransactionHash = arg.txHash /\ e.LogIndex = arg.logIndex
    THEN /\ val # Nil
         /\ val.TransactionHash = arg.txHash
         /\ val.LogIndex = arg.logIndex
         /\ \E e \in table : ColumnsOf(e) = ColumnsOf(val)
    ELSE val = Nil

\* C6: L1ContractEventByTxLogIndex / L2ContractEventByTxLogIndex (tx, i),
\* i = 0 included, returns the stored event with TransactionHash = tx and
\* LogIndex = i when there is one and (nil, nil) when there is none; it never
\* returns an event with another TransactionHash or LogIndex.
C6_EventByLocationExact ==
    /\ ret.op = "L1ContractEventByTxLogIndex"
       => (ret.err = "nil"
           /\ ByLocationAnswer(l1_contract_events, ret.arg, ret.val))
    /\ ret.op = "L2ContractEventByTxLogIndex"
       => (ret.err = "nil"
           /\ ByLocationAnswer(l2_contract_events, ret.arg, ret.val))

Reconciled(c) ==
    /\ c.RLPLog.BlockHash = c.BlockHash
    /\ c.RLPLog.TxHash = c.TransactionHash
    /\ c.RLPLog.Index = c.LogIndex
    /\ \E row \in l1_contract_events \cup l2_contract_events :
          ColumnsOf(row) = ColumnsOf(c)

\* C7: every event returned by a read of the Event Store (by GUID, by
\* transaction and log index, by height range on either chain or through the
\* dual-chain entry point) carries a raw log whose block hash, transaction
\* hash and log index equal the BlockHash, TransactionHash and LogIndex
\* columns of its row, whatever the log stored at ingestion held there.
C7_RawLogReconciled ==
    /\ (/\ ret.op \in {"L1ContractEvent", "L2ContractEvent",
                       "L1ContractEventByTxLogIndex",
                       "L2ContractEventByTxLogIndex"}
        /\ ret.val # Nil)
       => Reconciled(ret.val)
    /\ (/\ ret.op \in {"L1ContractEventsWithFilter",
                       "L2ContractEventsWithFilter",
                       "ContractEventsWithFilter"}
        /\ ret.err = "nil")
       => \A i \in 1..Len(ret.val) : Reconciled(ret.val[i])

\* The dual-chain read returns log 1 of a transaction, ingested with a blank
\* block hash and a stale index.
C7_Witness ==
    /\ ret.op = "ContractEventsWithFilter"
    /\ ret.err = "nil"
    /\ Len(ret.val) = 1
    /\ ret.val[1].LogIndex = 1

InRangeAnswer(events, headers, arg) ==
    {e \in events :
        /\ \E h \in headers :
              /\ h.Hash = e.BlockHash
              /\ h.Number >= (IF arg.fromHeight = NilHeight THEN 0
                              ELSE arg.fromHeight)
              /\ h.Number <= arg.toHeight
        /\ \A f \in EventColumns : arg.filter[f] # 0 => e[f] = arg.filter[f]}

ExactlyTheEvents(val, expected) ==
    /\ {ColumnsOf(val[i]) : i \in 1..Len(val)} = {ColumnsOf(e) : e \in expected}
    /\ Len(val) = Cardinality(expected)

\* C8: L1ContractEventsWithFilter / L2ContractEventsWithFilter (filter, from,
\* to) returns exactly the stored events of its chain whose BlockHash is the
\* Hash of a stored header of that chain with Number in [from, to], both
\* ends included and a nil from taken as 0, and which equal the filter on
\* every non-zero field of the filter; zero fields constrain nothing.
C8_EventsInRangeExact ==
    /\ ret.op = "L1ContractEventsWithFilter"
       => /\ ret.err = "nil"
          /\ ExactlyTheEvents(ret.val, InRangeAnswer(l1_contract_events,
                                                     l1_block_headers, ret.arg))
    /\ ret.op = "L2ContractEventsWithFilter"
       => /\ ret.err = "nil"
          /\ ExactlyTheEvents(ret.val, InRangeAnswer(l2_contract_events,
                                                     l2_block_headers, ret.arg))

\* A nil from and an upper end equal to the header's number; the filter on
\* ContractAddress keeps one of the two events of the block.
C8_Witness ==
    /\ ret.op = "L1ContractEventsWithFilter"
    /\ ret.arg.fromHeight = NilHeight
    /\ ret.arg.filter.ContractAddress = 2
    /\ Cardinality(l1_contract_events) = 2
    /\ Len(ret.val) = 1
    /\ \E h \in l1_block_headers :
          h.Hash = ret.val[1].BlockHash /\ h.Number = ret.arg.toHeight

IsSubsequence(s, u) ==
    \E at \in [1..Len(s) -> 1..Len(u)] :
        /\ \A i, j \in 1..Len(s) : i < j => at[i] < at[j]
        /\ \A i \in 1..Len(s) : s[i] = u[at[i]]

OrderedByNumber(val, headers) ==
    \A i, j \in 1..Len(val) :
        i < j => \A hi, hj \in headers :
                    (hi.Hash = val[i].BlockHash /\ hj.Hash = val[j].BlockHash)
                    => hi.Number <= hj.Number

\* C9: the events returned by L1ContractEventsWithFilter /
\* L2ContractEventsWithFilter are ordered by non-decreasing Number of their
\* header, and the result for any filter is a subsequence of the result for
\* the empty filter over the same range: narrowing the filter never changes
\* the relative order of the events that remain, those of one block included.
C9_RangeOrderStable ==
    /\ ret.op = "L1ContractEventsWithFilter"
       => /\ OrderedByNumber(ret.val, l1_block_headers)
          /\ \A all \in ContractEventsWithFilterResults(l1_contract_events,
                    l1_block_headers, ContractEventZero,
                    ret.arg.fromHeight, ret.arg.toHeight) :
                IsSubsequence(ret.val, all)
    /\ ret.op = "L2ContractEventsWithFilter"
       => /\ OrderedByNumber(ret.val, l2_block_headers)
          /\ \A all \in ContractEventsWithFilterResults(l2_contract_events,
                    l2_block_headers, ContractEventZero,
                    ret.arg.fromHeight, ret.arg.toHeight) :
                IsSubsequence(ret.val, all)

GUIDStored(batch, table) ==
    {i \in 1..Len(batch) : \E x \in table : x.GUID = batch[i].GUID}

LocationStored(batch, table) ==
    {i \in 1..Len(batch) : \E x \in table :
        /\ x.TransactionHash = batch[i].TransactionHash
        /\ x.LogIndex = batch[i].LogIndex}

EventKeysUnique(table) ==
    \A x, y \in table :
        (x.GUID = y.GUID
            \/ (x.TransactionHash = y.TransactionHash /\ x.LogIndex = y.LogIndex))
        => x = y

C10_StoreFails ==
    /\ (/\ ret'.op = "StoreL1ContractEvents"
        /\ GUIDStored(ret'.arg, l1_contract_events)
              \cup LocationStored(ret'.arg, l1_contract_events) # {})
       => ret'.err = "DuplicateKey"
    /\ (/\ ret'.op = "StoreL2ContractEvents"
        /\ GUIDStored(ret'.arg, l2_contract_events)
              \cup LocationStored(ret'.arg, l2_contract_events) # {})
       => ret'.err = "DuplicateKey"
    /\ (ret'.op = "StoreL1ContractEvents" /\ ret'.err # "nil")
       => l1_contract_events' = l1_contract_events
    /\ (ret'.op = "StoreL2ContractEvents" /\ ret'.err # "nil")
       => l2_contract_events' = l2_contract_events

\* C10: a StoreL1ContractEvents / StoreL2ContractEvents call fails with a
\* duplicate-key error when an event of its batch has a GUID or a
\* (TransactionHash, LogIndex) pair already stored on that chain, a failed
\* call persists no event of its batch, and so no two stored events of one
\* chain ever share a GUID or a (TransactionHash, LogIndex) pair.
C10_StoreEventsUniqueAtomic ==
    /\ [](EventKeysUnique(l1_contract_events)
            /\ EventKeysUnique(l2_contract_events))
    /\ [][C10_StoreFails]_vars

\* A failed batch of two: one event is new to the table, the other has a new
\* GUID and a stored (TransactionHash, LogIndex).
C10_Witness ==
    /\ ret.op = "StoreL2ContractEvents"
    /\ ret.err = "DuplicateKey"
    /\ Len(ret.arg) = 2
    /\ GUIDStored(ret.arg, l2_contract_events) = {}
    /\ Cardinality(LocationStored(ret.arg, l2_contract_events)) = 1
    /\ l2_contract_events # {}

(***************************************************************************)
(* Properties of the dual-chain entry point and of the lookup by GUID      *)
(***************************************************************************)

C11_Dispatch ==
    ret.op = "ContractEventsWithFilter"
    => /\ ret.arg.chain = "l1"
          => /\ ret.err = "nil"
             /\ ret.val \in ContractEventsWithFilterResults(l1_contract_events,
                    l1_block_headers, ret.arg.filter, ret.arg.fromHeight,
                    ret.arg.toHeight)
       /\ ret.arg.chain = "l2"
          => /\ ret.err = "nil"
             /\ ret.val \in ContractEventsWithFilterResults(l2_contract_events,
                    l2_block_headers, ret.arg.filter, ret.arg.fromHeight,
                    ret.arg.toHeight)
       /\ ret.arg.chain \notin {"l1", "l2"}
          => /\ ret.err = "expected 'l1' or 'l2' for chain type"
             /\ ret.val = Nil

C11_NoTableChanged ==
    ret'.op = "ContractEventsWithFilter"
    => UNCHANGED <<headerTables, eventTables, checkpointTables>>

\* C11: ContractEventsWithFilter(filter, chain, from, to) returns for chain
\* "l1" a sequence L1ContractEventsWithFilter(filter, from, to) returns (same
\* events, same order) and for chain "l2" one L2ContractEventsWithFilter
\* returns, as plain ContractEvents; for any other selector it fails with the
\* invalid-argument error and returns no events whatever the tables hold; no
\* call changes a table.
C11_DualChainDispatch == []C11_Dispatch /\ [][C11_NoTableChanged]_vars

\* The "l2" selector returns the one event of L2 while L1 holds another.
C11_Witness ==
    /\ ret.op = "ContractEventsWithFilter"
    /\ ret.arg.chain = "l2"
    /\ Len(ret.val) = 1
    /\ l1_contract_events # {}
    /\ l1_contract_events # l2_contract_events

ByIDAnswer(table, g, val) ==
    IF \E e \in table : e.GUID = g
    THEN /\ val # Nil
         /\ val.GUID = g
         /\ \E e \in table : ColumnsOf(e) = ColumnsOf(val)
    ELSE val = Nil

\* C12: L1ContractEvent(g) / L2ContractEvent(g) returns the stored event of
\* its chain whose GUID is g when there is one, and (nil, nil) for every GUID
\* no stored event of that chain carries, whatever else the table holds; it
\* never returns an event with another GUID, and never an error.
C12_EventByIDExact ==
    /\ ret.op = "L1ContractEvent"
       => (ret.err = "nil" /\ ByIDAnswer(l1_contract_events, ret.arg, ret.val))
    /\ ret.op = "L2ContractEvent"
       => (ret.err = "nil" /\ ByIDAnswer(l2_contract_events, ret.arg, ret.val))

(***************************************************************************)
(* Properties of Checkpoint Linkage                                        *)
(***************************************************************************)

\* C14: LatestCheckpointedOutput returns a stored OutputProposal whose
\* L2OutputIndex is the maximum over the stored output proposals, and
\* returns (nil, nil) exactly when no output proposal is stored.
C14_LatestCheckpointedOutputIsMax ==
    ret.op = "LatestCheckpointedOutput"
    => /\ ret.err = "nil"
       /\ (ret.val = Nil) <=> (output_proposals = {})
       /\ ret.val # Nil
          => /\ ret.val \in output_proposals
             /\ \A o \in output_proposals :
                   o.L2OutputIndex <= ret.val.L2OutputIndex

\* The latest of two proposals with different indexes.
C14_Witness ==
    /\ ret.op = "LatestCheckpointedOutput"
    /\ ret.val # Nil
    /\ \E o \in output_proposals : o.L2OutputIndex < ret.val.L2OutputIndex

\* C15: OutputProposal(i), i = 0 included, returns a stored OutputProposal
\* whose L2OutputIndex is i when there is one and (nil, nil) when there is
\* none; it never returns a proposal with another L2OutputIndex.
C15_OutputProposalAtExact ==
    (ret.op = "OutputProposal" /\ ret.arg # NilHeight)
    => /\ ret.err = "nil"
       /\ IF \E o \in output_proposals : o.L2OutputIndex = ret.arg
          THEN ret.val \in output_proposals /\ ret.val.L2OutputIndex = ret.arg
          ELSE ret.val = Nil

\* Index 0 asked of a table holding proposals 0 and 1.
C15_Witness ==
    /\ ret.op = "OutputProposal"
    /\ ret.arg = 0
    /\ ret.val # Nil
    /\ \E o \in output_proposals : o.L2OutputIndex = 1

(***************************************************************************)
(* Properties of the stores under concurrent readers                       *)
(***************************************************************************)

\* Table T is left as it was, or the statement in flight commits and T gains
\* every row of its batch.
WholeBatchOrNothing(op, T, Tnext) ==
    \/ Tnext = T
    \/ /\ tx # Nil
       /\ tx.op = op
       /\ tx' = Nil
       /\ ret'.err = "nil"
       /\ Tnext = T \cup Range(StoreRows(op, tx.rows))

C13_Steps ==
    /\ WholeBatchOrNothing("StoreL1BlockHeaders",
                           l1_block_headers, l1_block_headers')
    /\ WholeBatchOrNothing("StoreL2ContractEvents",
                           l2_contract_events, l2_contract_events')
    /\ WholeBatchOrNothing("StoreLegacyStateBatches",
                           legacy_state_batches, legacy_state_batches')
    /\ WholeBatchOrNothing("StoreOutputProposals",
                           output_proposals, output_proposals')

C13_ReadsCommitted ==
    /\ (ret.op = "LatestL1BlockHeader" /\ ret.val # Nil)
       => ret.val \in l1_block_headers
    /\ (ret.op = "L2ContractEvent" /\ ret.val # Nil)
       => \E row \in l2_contract_events : ColumnsOf(row) = ColumnsOf(ret.val)
    /\ (ret.op = "LatestCheckpointedOutput" /\ ret.val # Nil)
       => ret.val \in output_proposals

\* C13: with reads running while a Store* call is in flight, every read sees
\* none of the rows of its batch or all of them: each step leaves a table as
\* it was or adds the whole batch of the call that completes, a call that
\* fails adds no row, and a read returns only rows of the tables.
C13_BatchesAtomicForReaders == []C13_ReadsCommitted /\ [][C13_Steps]_vars

\* A read that finds the header table empty while a batch of two headers is
\* in flight.
C13_Witness ==
    /\ tx # Nil
    /\ tx.op = "StoreL1BlockHeaders"
    /\ Len(tx.rows) = 2
    /\ ret.op = "LatestL1BlockHeader"
    /\ ret.val = Nil
    /\ output_proposals # {}

(***************************************************************************)
(* Properties of the stores over time                                      *)
(***************************************************************************)

\* C16: the header and event tables are append-only: whatever the step (a
\* Store* call on either chain that succeeds or fails, any read), every row
\* of a table before the step is a row of it after the step, with all its
\* columns as they were; no operation deletes or rewrites a stored row.
C16_AppendOnly ==
    [][/\ l1_block_headers \subseteq l1_block_headers'
       /\ l2_block_headers \subseteq l2_block_headers'
       /\ l1_contract_events \subseteq l1_contract_events'
       /\ l2_contract_events \subseteq l2_contract_events']_vars

\* A store that failed against a stored event with the same GUID and other
\* columns, after headers were stored as well.
C16_Witness ==
    /\ ret.op = "StoreL1ContractEvents"
    /\ ret.err = "DuplicateKey"
    /\ \E e \in l1_contract_events :
          /\ e.GUID = ret.arg[1].GUID
          /\ ColumnsOf(e) # ColumnsOf(ret.arg[1])
    /\ l1_block_headers # {}
    /\ l2_contract_events # {}

\* No header of the chain has the event's BlockHash.
Orphan(e, headers) == \A h \in headers : h.Hash # e.BlockHash

Returns(val, e) == val # Nil /\ ColumnsOf(val) = ColumnsOf(e)

OrphanByID(events, headers) ==
    \A e \in events :
        (Orphan(e, headers) /\ ret.arg = e.GUID) => Returns(ret.val, e)

OrphanByLocation(events, headers) ==
    \A e \in events :
        (/\ Orphan(e, headers)
         /\ ret.arg.txHash = e.TransactionHash
         /\ ret.arg.logIndex = e.LogIndex)
        => Returns(ret.val, e)

\* An orphan is in no result; an event whose header is stored with a Number
\* in the range asked for is in the result of the empty filter.
WeakReferenceInRange(events, headers) ==
    \A e \in events :
        /\ Orphan(e, headers)
           => \A i \in 1..Len(ret.val) : ColumnsOf(ret.val[i]) # ColumnsOf(e)
        /\ (/\ ret.arg.filter = ContractEventZero
            /\ \E h \in headers :
                  /\ h.Hash = e.BlockHash
                  /\ HeightInRange(h.Number, ret.arg.fromHeight,
                                   ret.arg.toHeight))
           => \E i \in 1..Len(ret.val) : Returns(ret.val[i], e)

C17_Reads ==
    /\ ret.op = "L1ContractEvent"
       => OrphanByID(l1_contract_events, l1_block_headers)
    /\ ret.op = "L2ContractEvent"
       => OrphanByID(l2_contract_events, l2_block_headers)
    /\ ret.op = "L1ContractEventByTxLogIndex"
       => OrphanByLocation(l1_contract_events, l1_block_headers)
    /\ ret.op = "L2ContractEventByTxLogIndex"
       => OrphanByLocation(l2_contract_events, l2_block_headers)
    /\ ret.op = "L1ContractEventsWithFilter"
       => WeakReferenceInRange(l1_contract_events, l1_block_headers)
    /\ ret.op = "L2ContractEventsWithFilter"
       => WeakReferenceInRange(l2_contract_events, l2_block_headers)

\* A store of events none of which collides on a key succeeds and persists
\* them, whether or not a header carries their BlockHash.
C17_StoreAccepts ==
    /\ (/\ ret'.op = "StoreL1ContractEvents"
        /\ Len(ret'.arg) = 1
        /\ GUIDStored(ret'.arg, l1_contract_events)
              \cup LocationStored(ret'.arg, l1_contract_events) = {})
       => /\ ret'.err = "nil"
          /\ EventRow(ret'.arg[1]) \in l1_contract_events'
    /\ (/\ ret'.op = "StoreL2ContractEvents"
        /\ Len(ret'.arg) = 1
        /\ GUIDStored(ret'.arg, l2_contract_events)
              \cup LocationStored(ret'.arg, l2_contract_events) = {})
       => /\ ret'.err = "nil"
          /\ EventRow(ret'.arg[1]) \in l2_contract_events'

\* C17: the reference from an event to its header is weak: a store of an
\* event whose BlockHash is the Hash of no stored header of its chain
\* succeeds; such an event is returned by the lookup by GUID and by the
\* lookup by (TransactionHash, LogIndex) and is in the result of no range
\* read; and an event whose header is stored with Number n is in the result
\* of the range read for every range containing n.
C17_WeakBackReference == []C17_Reads /\ [][C17_StoreAccepts]_vars

(***************************************************************************)
(* Properties of ContractEventFromLog                                      *)
(***************************************************************************)

C18_Fields ==
    ret.op = "ContractEventFromLog"
    => /\ ret.val.BlockHash = ret.arg.log.BlockHash
       /\ ret.val.TransactionHash = ret.arg.log.TxHash
       /\ ret.val.ContractAddress = ret.arg.log.Address
       /\ ret.val.LogIndex = ret.arg.log.Index
       /\ ret.val.Timestamp = ret.arg.timestamp
       /\ ret.val.EventSignature =
             (IF ret.arg.log.Topics = <<>> THEN 0 ELSE Head(ret.arg.log.Topics))
       /\ ret.val.GUID \in uuids

C18_FreshGUID ==
    ret'.op = "ContractEventFromLog"
    => /\ ret'.val.GUID \notin uuids
       /\ uuids \subseteq uuids'

\* C18: ContractEventFromLog(log, timestamp) returns an event whose
\* BlockHash, TransactionHash, ContractAddress and LogIndex are the log's
\* BlockHash, TxHash, Address and Index, whose Timestamp is the timestamp
\* given, whose EventSignature is the log's first topic, or the zero hash
\* for a log without topics, and whose GUID is the GUID of no earlier
\* conversion, of the same log or of another.
C18_ContractEventFromLog == []C18_Fields /\ [][C18_FreshGUID]_vars

\* The third conversion, of a log without topics.
C18_Witness ==
    /\ ret.op = "ContractEventFromLog"
    /\ Cardinality(uuids) = 3
    /\ ret.arg.log.Topics = <<>>
    /\ ret.val.EventSignature = 0
    /\ ret.val.TransactionHash # ret.val.BlockHash

(***************************************************************************)
(* Properties of SuperchainConfig                                          *)
(***************************************************************************)

\* A call to pause or unpause goes through exactly for the guardian; a call
\* by anyone else reverts and leaves the storage as it was.
C19_OnlyGuardian ==
    ret'.op \in {"pause", "unpause"}
    => IF ret'.arg.sender = superchainConfig.guardian
       THEN /\ ret'.err = "nil"
            /\ superchainConfig'.paused = (IF ret'.op = "pause" THEN 1 ELSE 0)
       ELSE /\ ret'.err # "nil"
            /\ superchainConfig' = superchainConfig

\* The flag changes only in a successful pause or unpause, and the guardian
\* only in a successful initialize.
C19_Changes ==
    /\ superchainConfig'.paused # superchainConfig.paused
       => ret'.op \in {"pause", "unpause"} /\ ret'.err = "nil"
    /\ superchainConfig'.guardian # superchainConfig.guardian
       => ret'.op = "initialize" /\ ret'.err = "nil"

C19_Getter ==
    /\ ret.op = "paused" => ret.val = (superchainConfig.paused = 1)
    /\ ret.op = "init" => superchainConfig.paused = 0

\* C19: pause and unpause succeed only for the current guardian, and a call
\* by another address reverts and leaves the paused flag as it was; the
\* flag is clear at first, set by every successful pause, cleared by every
\* successful unpause and changed by no other call, so paused() is true
\* exactly when the last successful pause / unpause was a pause; the
\* guardian changes in a successful initialize only.
C19_PauseOnlyByGuardian ==
    []C19_Getter /\ [][C19_OnlyGuardian /\ C19_Changes]_vars

\* paused() answers true: guardian 2 was set by initialize and has paused.
C19_Witness ==
    /\ ret.op = "paused"
    /\ ret.val = TRUE
    /\ superchainConfig.guardian = 2
    /\ superchainConfig.initialized = INITIALIZER

(***************************************************************************)
(* Properties of PermissionedDisputeGame                                   *)
(***************************************************************************)

Permitted == {disputeGame.PROPOSER, disputeGame.CHALLENGER}

\* A move or step of anyone but the proposer and the challenger, and an
\* initialize of a transaction not sent by the proposer, revert with
\* BadAuth and leave the game as it was; the two roles never change.
C20_BadAuth ==
    /\ (/\ ret'.op \in {"PermissionedDisputeGame.move",
                         "PermissionedDisputeGame.step"}
        /\ ret'.arg.call.sender \notin Permitted)
       => (ret'.err = "BadAuth" /\ disputeGame' = disputeGame)
    /\ (/\ ret'.op = "PermissionedDisputeGame.initialize"
        /\ ret'.arg.call.origin # disputeGame.PROPOSER)
       => (ret'.err = "BadAuth" /\ disputeGame' = disputeGame)
    /\ disputeGame'.PROPOSER = disputeGame.PROPOSER
    /\ disputeGame'.CHALLENGER = disputeGame.CHALLENGER

C20_ClaimsByRoles ==
    \A i \in 1..Len(disputeGame.claimData) :
        /\ disputeGame.claimData[i].claimant \in Permitted
        /\ disputeGame.claimData[i].counteredBy \in Permitted \cup {0}

\* C20: every move or step whose msg.sender is neither PROPOSER nor
\* CHALLENGER reverts with BadAuth, whatever the inherited game logic would
\* have answered, and changes nothing; initialize reverts with BadAuth
\* unless tx.origin is PROPOSER; so every claim and every step of the game
\* was made by the proposer or the challenger, and PROPOSER and CHALLENGER
\* stay as the constructor set them.
C20_OnlyProposerAndChallenger == []C20_ClaimsByRoles /\ [][C20_BadAuth]_vars

\* The proposer's transaction reaches move through a forwarding contract and
\* is turned away, in a game that holds a claim of the challenger countered
\* by the proposer.
C20_Witness ==
    /\ ret.op = "PermissionedDisputeGame.move"
    /\ ret.arg.call = [origin |-> 1, sender |-> Forwarder]
    /\ ret.err = "BadAuth"
    /\ \E i \in 1..Len(disputeGame.claimData) :
          /\ disputeGame.claimData[i].claimant = 2
          /\ disputeGame.claimData[i].counteredBy = 1

(***************************************************************************)
(* Properties of interruptSignalCatcher                                    *)
(***************************************************************************)

Returned(w) == waiters[w].pc = "returned"

ReturnedBySignal == {w \in Waiters : Returned(w) /\ waiters[w].result.Interrupt # "nil"}

\* A call returns only from a select that a pending signal or a cancelled
\* context released: by a signal it takes the oldest signal out of the
\* channel and reports it as Interrupt, with no CtxError; by cancellation it
\* reports the cause of its context as CtxError, with no Interrupt, and
\* leaves the channel alone.  No other call returns in the same step, and
\* nothing but a return takes a signal out of the channel.
C21_Returns ==
    /\ \A w \in Waiters :
          (~Returned(w) /\ Returned(w)') =>
             /\ waiters[w].pc = "select"
             /\ incoming # <<>> \/ ctx[w].done
             /\ \A v \in Waiters \ {w} : waiters'[v] = waiters[v]
             /\ \/ /\ incoming # <<>>
                   /\ incoming' = Tail(incoming)
                   /\ waiters'[w].result =
                         waitInterruptResult(InterruptError(Head(incoming)), "nil")
                   /\ Head(incoming) \in defaultSignals
                \/ /\ ctx[w].done
                   /\ incoming' = incoming
                   /\ waiters'[w].result =
                         waitInterruptResult("nil", ctx[w].cause)
                   /\ ctx[w].cause \in Causes
    /\ \A w \in Waiters : Returned(w) => waiters'[w] = waiters[w]
    /\ (\A w \in Waiters : Returned(w)' = Returned(w)) =>
          \/ incoming' = incoming
          \/ \E sig \in defaultSignals : incoming' = Append(incoming, sig)

\* Every signal put into the channel is still there or has released exactly
\* one call, and a result names exactly one of the two reasons.
C21_OneSignalOneWaiter ==
    /\ Cardinality(ReturnedBySignal) + Len(incoming) = delivered
    /\ \A w \in Waiters : Returned(w) =>
          (waiters[w].result.Interrupt = "nil") # (waiters[w].result.CtxError = "nil")

\* A call whose context is cancelled returns; a call with a signal pending
\* returns unless other calls take the pending signals first, and returns
\* for certain when every other call has returned already.
C21_EventuallyReturns ==
    \A w \in Waiters :
       /\ (waiters[w].pc = "select" /\ ctx[w].done) ~> Returned(w)
       /\ (waiters[w].pc = "select" /\ incoming # <<>>)
             ~> (Returned(w) \/ incoming = <<>>)
       /\ (/\ waiters[w].pc = "select"
           /\ incoming # <<>>
           /\ \A v \in Waiters \ {w} : waiters[v].pc \in {"idle", "returned"}
           /\ [](\A v \in Waiters \ {w} : waiters[v].pc = "idle" => [](waiters[v].pc = "idle")))
             ~> Returned(w)

\* C21: waitForInterrupt(ctx) blocks until an interrupt signal (os.Interrupt
\* or SIGTERM) is in the catcher's channel or ctx is cancelled and returns
\* in no other case; once either has happened it eventually returns.  Its
\* result carries Interrupt and no CtxError exactly when a signal released
\* it, and the context's cause as CtxError and no Interrupt exactly when
\* cancellation did; among concurrent waiters one signal releases at most
\* one.
C21_WaitForInterrupt ==
    /\ []C21_OneSignalOneWaiter
    /\ [][C21_Returns]_vars
    /\ C21_EventuallyReturns

\* Two calls waited and one signal arrived: one of them returned with
\* Interrupt, the other stayed blocked until its context was cancelled with
\* a cause and returned that cause.
C21_Witness ==
    /\ delivered = 1
    /\ incoming = <<>>
    /\ waiters[1].pc = "returned"
    /\ waiters[1].result =
          waitInterruptResult("received interrupt signal terminated", "nil")
    /\ waiters[2].pc = "returned"
    /\ waiters[2].result = waitInterruptResult("nil", "shutdown")

(***************************************************************************)
(* The two chains side by side                                             *)
(***************************************************************************)

\* What every query of one chain may answer, given the chain's two tables.
Answers(headers, events) ==
    [HeaderAt |-> [height \in Heights |->
                     TakeResults(Where(headers,
                         [BlockHeaderZero EXCEPT !.Number = height],
                         BlockHeaderZero))],
     LatestHeader |-> TakeResults(OrderNumberDesc(headers)),
     EventByID |-> [uuid \in GUIDs \cup {NilUUID} |->
                     {FindEvent(row) : row \in TakeResults(Where(events,
                         [ContractEventZero EXCEPT !.GUID = uuid],
                         ContractEventZero))}],
     EventByLocation |-> [loc \in Hashes \X LogIndexes |->
                     {FindEvent(row) : row \in TakeResults(Where(events,
                         [ContractEventZero EXCEPT !.TransactionHash = loc[1],
                                                   !.LogIndex = loc[2]],
                         ContractEventZero))}],
     EventsInRange |-> [range \in {NilHeight, 1} \X Numbers |->
                     ContractEventsWithFilterResults(events, headers,
                         ContractEventZero, range[1], range[2])]]

L1Answers == Answers(l1_block_headers, l1_contract_events)
L2Answers == Answers(l2_block_headers, l2_contract_events)

L1Stores == {"StoreL1BlockHeaders", "StoreL1ContractEvents"}
L2Stores == {"StoreL2BlockHeaders", "StoreL2ContractEvents"}
CheckpointStores == {"StoreLegacyStateBatches", "StoreOutputProposals"}

\* A store on one chain, whether it succeeds or fails, leaves the tables of
\* the other chain and the answers of its queries as they were.
C22_OtherChainUntouched ==
    /\ ret'.op \in L1Stores =>
          /\ UNCHANGED <<l2_block_headers, l2_contract_events>>
          /\ L2Answers' = L2Answers
    /\ ret'.op \in L2Stores =>
          /\ UNCHANGED <<l1_block_headers, l1_contract_events>>
          /\ L1Answers' = L1Answers

\* A header or event store fails with the duplicate-key error only against
\* rows of its own chain: a row that meets no key of its own table is
\* stored, whatever the other chain holds.
C22_KeysPerChain ==
    /\ (ret'.op = "StoreL1BlockHeaders"
          /\ \A h \in l1_block_headers : h.Hash # ret'.arg[1].Hash)
        => (ret'.err = "nil" /\ ret'.arg[1] \in l1_block_headers')
    /\ (ret'.op = "StoreL2BlockHeaders"
          /\ \A h \in l2_block_headers : h.Hash # ret'.arg[1].Hash)
        => (ret'.err = "nil" /\ ret'.arg[1] \in l2_block_headers')

\* Only the six Store* operations write, each to its own table.
C22_ReadsPure ==
    /\ ret'.op \notin L1Stores \cup L2Stores \cup CheckpointStores =>
          UNCHANGED <<headerTables, eventTables, checkpointTables>>
    /\ ret'.op \in CheckpointStores => UNCHANGED <<headerTables, eventTables>>

\* C22: the stores of the two chains are independent and reads are pure: a
\* Store* call on one chain, successful or failed, leaves the header and
\* event tables of the other chain unchanged and with them the result of
\* every HeaderAt, LatestHeader, EventByID, EventByLocation and
\* EventsInRange query on the other chain; the same header Hash is stored
\* once on L1 and once on L2 without a duplicate-key failure; no read
\* (LatestEpoch and the checkpoint lookups included) changes any table.
C22_ChainsIndependent ==
    [][C22_OtherChainUntouched /\ C22_KeysPerChain /\ C22_ReadsPure]_vars

\* The header stored on L1 went into L2 as well without a duplicate-key
\* failure, while L1 also holds an event.
C22_Witness ==
    /\ ret.op = "StoreL2BlockHeaders"
    /\ ret.err = "nil"
    /\ ret.arg[1] \in l1_block_headers
    /\ ret.arg[1] \in l2_block_headers
    /\ l1_contract_events # {}

====
